---- MODULE Spec2Model ----
(***************************************************************************)
(* Model of the ZYVRO product finder: app.py (get_live_data,               *)
(* compute_winning_score and the run_button handler) and                   *)
(* amazon_winning_products.py (get_amazon_top_products).                   *)
(*                                                                         *)
(* A JSON value is a record [k, v]: k is the kind ("absent" for a key the  *)
(* mapping does not hold, "none" for null/None, "num" for a number,        *)
(* "str" for a non-empty string, "empty" for "", "nan" for the float NaN   *)
(* that pandas puts in a numeric column in place of None); v is the number *)
(* of a "num" and 0 otherwise.                                             *)
(***************************************************************************)
EXTENDS Integers, Sequences, FiniteSets, TLC

VARIABLES script, search_results, num_products, compute_score,
          pc, i, products, df, cols, err, results

vars == <<script, search_results, num_products, compute_score,
          pc, i, products, df, cols, err, results>>

\* ------------------------------------------------------------------ bounds

\* Longest search_results list the API returns in the model.
MaxLen == 2

\* ------------------------------------------------------------------ values

Absent == [k |-> "absent", v |-> 0]
None == [k |-> "none", v |-> 0]
NaN == [k |-> "nan", v |-> 0]
Str == [k |-> "str", v |-> 0]
Empty == [k |-> "empty", v |-> 0]
Num(x) == [k |-> "num", v |-> x]

\* Python truthiness of a value: None, 0 and "" are falsy; NaN is truthy.
Truthy(x) ==
    CASE x.k = "num" -> x.v # 0
      [] x.k = "str" -> TRUE
      [] x.k = "nan" -> TRUE
      [] OTHER -> FALSE

\* dict.get(key, default) on a mapping whose entry for key is x.
Get(x, default) == IF x.k = "absent" THEN default ELSE x

\* ------------------------------------------------------------ raw records

\* The shapes of the raw "price" field of an item of search_results.
PriceAbsent == [shape |-> "absent", value |-> Absent]
PriceNull == [shape |-> "null", value |-> None]
PriceNum(x) == [shape |-> "num", value |-> Num(x)]
PriceStr == [shape |-> "str", value |-> Str]
PriceMap(x) == [shape |-> "map", value |-> x]

Item(t, p, r, rv, l, im) ==
    [title |-> t, price |-> p, rating |-> r, reviews |-> rv, link |-> l, image |-> im]

\* A well-formed item, and the items that differ from it in one field.
BaseItem == Item(Str, PriceMap(Num(1499)), Num(4), Num(50), Str, Str)

TitleValues == {Absent, None, Empty, Str}

PriceValues ==
    {PriceAbsent, PriceNull, PriceNum(1499), PriceStr,
     PriceMap(Absent), PriceMap(None), PriceMap(Num(0)),
     PriceMap(Num(1499)), PriceMap(Num(149900)), PriceMap(Num(100000))}

RatingValues == {Absent, None, Num(-1), Num(0), Num(4), Str}

ReviewValues == {Absent, None, Num(-1), Num(0), Num(50), Str}

NormItems ==
    {[BaseItem EXCEPT !.title = t] : t \in TitleValues}
    \cup {[BaseItem EXCEPT !.price = p] : p \in PriceValues}
    \cup {[BaseItem EXCEPT !.rating = r] : r \in RatingValues}
    \cup {[BaseItem EXCEPT !.reviews = rv] : rv \in ReviewValues}
    \cup {[BaseItem EXCEPT !.link = Absent], [BaseItem EXCEPT !.image = Absent],
          [BaseItem EXCEPT !.title = Empty, !.price = PriceMap(Num(0))],
          [BaseItem EXCEPT !.title = Absent, !.price = PriceNull]}

\* Items with a well-formed price mapping and every combination of the
\* three fields that compute_winning_score reads.
RankItems ==
    {Item(Str, PriceMap(Num(p)), r, rv, Str, Str) :
        p \in {-1, 299}, r \in {None, Num(0), Num(4), Str},
        rv \in {None, Num(0), Num(50), Num(-1)}}
    \cup {[BaseItem EXCEPT !.price = PriceNull], [BaseItem EXCEPT !.title = Absent],
          [BaseItem EXCEPT !.price = PriceMap(Num(0))]}

SeqsUpTo(S, n) == UNION {[1..m -> S] : m \in 0..n}

\* ------------------------------------------------------------ get_live_data

\* price_info = item.get("price", {}): the mapping {} when the key is absent.
price_info(item) == IF item.price.shape = "absent" THEN PriceMap(Absent) ELSE item.price

\* price_info.get("value", 0) raises AttributeError unless price_info is a mapping.
PriceRaises(item) == price_info(item).shape # "map"

\* Variant of PriceOf: a value above 100,000 is taken as minor units.
PriceOfMinorUnits(item) ==
    LET x == Get(price_info(item).value, Num(0)) IN
    IF x.k = "num" /\ x.v > 100000 THEN Num(x.v \div 100) ELSE x

\* price = price_info.get("value", 0)
PriceOf(item) == Get(price_info(item).value, Num(0))

\* Variant of Kept: the price is not part of the test.
KeptTitleOnly(item) == Truthy(item.title)

\* if title and price:
Kept(item) == Truthy(item.title) /\ Truthy(PriceOf(item))

\* The dict appended to products.
Product(item) ==
    [title |-> item.title,
     price |-> PriceOf(item),
     rating |-> Get(item.rating, Num(0)),
     reviews |-> Get(item.reviews, Num(0)),
     link |-> Get(item.link, None),
     thumbnail |-> Get(item.image, Empty)]

\* data.get("search_results", [])[:n]
Take(s, n) == SubSeq(s, 1, IF n < Len(s) THEN n ELSE Len(s))

\* ------------------------------------------------------ pd.DataFrame(products)

\* The values of one column of the list of dicts.
Column(rows, c) == {rows[j][c] : j \in 1..Len(rows)}

\* pandas infers a float column when every entry is a number or None and
\* at least one is a number; None then becomes NaN. Any other column is
\* an object column and keeps None.
IsNumericColumn(rows, c) ==
    /\ \A x \in Column(rows, c) : x.k \in {"num", "none", "nan"}
    /\ \E x \in Column(rows, c) : x.k = "num"

Cell(rows, c, x) == IF x.k = "none" /\ IsNumericColumn(rows, c) THEN NaN ELSE x

\* The score cell of a frame without the "Winning Score" column.
NoScore == [k |-> "absent", n |-> 0, d |-> 1]

\* pd.DataFrame(products): row j gets index label j - 1.
ToFrame(rows) ==
    [j \in 1..Len(rows) |->
        [index |-> j - 1,
         title |-> rows[j].title,
         price |-> Cell(rows, "price", rows[j].price),
         rating |-> Cell(rows, "rating", rows[j].rating),
         reviews |-> Cell(rows, "reviews", rows[j].reviews),
         link |-> rows[j].link,
         thumbnail |-> rows[j].thumbnail,
         score |-> NoScore]]

ProductColumns == {"title", "price", "rating", "reviews", "link", "thumbnail"}

\* ------------------------------------------------------ compute_winning_score

\* A score is the fraction n / d, in hundredths, with d > 0, or the float NaN.
ScoreNum(n, d) == [k |-> "num", n |-> n, d |-> d]
ScoreNaN == [k |-> "nan", n |-> 0, d |-> 1]
ScoreZero == ScoreNum(0, 1)

\* row.get(c) or 0
OrZero(x) == IF Truthy(x) THEN x ELSE Num(0)

\* 100 * math.log1p(rev), rounded down, for a number rev > -1.
Log1pCenti(rev) ==
    CASE rev = 0 -> 0
      [] rev = 1 -> 69
      [] rev = 50 -> 393
      [] rev = 999 -> 690
      [] OTHER -> 69 * rev

\* math.log1p(rev): ValueError for rev <= -1, TypeError for a string.
Log1pRaises(rev) == rev.k = "str" \/ (rev.k = "num" /\ rev.v <= -1)

\* (r * math.log1p(rev)) / (p + 1) raises: log1p does, or r * float or p + 1
\* is a TypeError, or the divisor is zero (ZeroDivisionError on Python floats).
ScoreRaises(r, rev, p) ==
    \/ Log1pRaises(rev)
    \/ r.k = "str"
    \/ p.k = "str"
    \/ (p.k = "num" /\ p.v + 1 = 0)

\* try: return (r * math.log1p(rev)) / (p + 1)
Quotient(r, rev, p) ==
    IF r.k = "nan" \/ rev.k = "nan" \/ p.k = "nan" THEN ScoreNaN
    ELSE IF p.v + 1 > 0
         THEN ScoreNum(r.v * Log1pCenti(rev.v), p.v + 1)
         ELSE ScoreNum(-(r.v * Log1pCenti(rev.v)), -(p.v + 1))

\* Variant of OnScoreError: the handler returns NaN.
OnScoreErrorNaN(r, rev, p) == ScoreNaN

\* except: return 0.0
OnScoreError(r, rev, p) == ScoreZero

Score(r, rev, p) ==
    IF ScoreRaises(r, rev, p) THEN OnScoreError(r, rev, p) ELSE Quotient(r, rev, p)

compute_winning_score(row) ==
    Score(OrZero(row.rating), OrZero(row.reviews), OrZero(row.price))

\* Comparison of two scores that are numbers.
ScoreLess(a, b) == a.n * b.d < b.n * a.d
ScoreEq(a, b) == a.k = b.k /\ a.n * b.d = b.n * a.d
IsZero(a) == a.k = "num" /\ a.n = 0

\* ------------------------------------------------------------ sort_values

\* The permutations of a sequence.
Perms(s) ==
    {[j \in 1..Len(s) |-> s[f[j]]] :
        f \in {g \in [1..Len(s) -> 1..Len(s)] : \A a, b \in 1..Len(s) : a # b => g[a] # g[b]}}

\* The sort key of a row for sort_values(by): the score in the
\* "Winning Score" column, or the reviews cell as a fraction (n / 1); a NaN
\* or None cell is no key.
SortKey(row, by) ==
    IF by = "Winning Score" THEN row.score
    ELSE IF row.reviews.k = "num" THEN ScoreNum(row.reviews.v, 1)
    ELSE IF row.reviews.k \in {"str", "empty"} THEN ScoreNum(0, 1)
    ELSE ScoreNaN

\* sort_values(by, ascending=False) with the default kind="quicksort" and
\* na_position="last": the rows with a key come first, in descending order of
\* the key; the rows without one follow in their input order. quicksort is
\* not a stable sort: the order of rows with equal keys is whatever the
\* numpy build produces.
Descending(s, by) ==
    \A a, b \in 1..Len(s) :
        a < b =>
            /\ SortKey(s[a], by).k = "nan" => SortKey(s[b], by).k = "nan"
            /\ (SortKey(s[a], by).k = "num" /\ SortKey(s[b], by).k = "num") =>
                  ~ScoreLess(SortKey(s[a], by), SortKey(s[b], by))
            /\ (SortKey(s[a], by).k = "nan" /\ SortKey(s[b], by).k = "nan") =>
                  s[a].index < s[b].index

SortOutcomes(s, by) == {t \in Perms(s) : Descending(t, by)}

\* Comparing a string with a number while sorting raises TypeError.
SortRaises(s, c) ==
    /\ \E x \in Column(s, c) : x.k \in {"str", "empty"}
    /\ \E x \in Column(s, c) : x.k \in {"num", "nan"}

\* df["Winning Score"] = df.apply(compute_winning_score, axis=1)
Apply(s) == [j \in 1..Len(s) |-> [s[j] EXCEPT !.score = compute_winning_score(s[j])]]

\* ------------------------------------------------------------ presentation

\* Rows shown in the chart and the cards: df.head(8).
TopN == 8

HeadN(s, n) == SubSeq(s, 1, IF n < Len(s) THEN n ELSE Len(s))

\* top8[c].max() raises TypeError when the column holds a string and a
\* value of another type.
MaxRaises(s, c) ==
    /\ \E x \in Column(s, c) : x.k \in {"str", "empty"}
    /\ \E x \in Column(s, c) : x.k \notin {"str", "empty"}

\* top8[c] / max raises TypeError when the column holds a string.
DivRaises(s, c) == \E x \in Column(s, c) : x.k \in {"str", "empty"}

\* An object column that holds only None: what .max(), the division and the
\* colormap make of it depends on the pandas and matplotlib versions.
ColumnAllNone(s, c) == \A x \in Column(s, c) : x.k = "none"

\* ------------------------------------------------------------ state machine

PcValues ==
    {"start", "loop", "returned", "ranked", "charted", "tabled", "done", "stopped", "raised"}

InitWith(Items) ==
    /\ script \in {"app", "amazon_winning_products"}
    /\ search_results \in SeqsUpTo(Items, MaxLen)
    /\ num_products \in 1..MaxLen
    /\ compute_score \in BOOLEAN
    /\ script = "amazon_winning_products" => compute_score = TRUE
    /\ pc = "start"
    /\ i = 0
    /\ products = <<>>
    /\ df = <<>>
    /\ cols = {}
    /\ err = ""
    /\ results = <<>>

Init == InitWith(NormItems)

InitRank == InitWith(RankItems)

\* Variant of Batch: the items are filtered before the list is cut to n.
BatchFilteredFirst == Take(SelectSeq(search_results, Kept), num_products)

\* The items the loop of either script goes over.
Batch == Take(search_results, num_products)

\* app.py, get_live_data: requests.get succeeded and the loop starts.
FetchOk ==
    /\ script = "app"
    /\ pc = "start"
    /\ pc' = "loop"
    /\ i' = 1
    /\ UNCHANGED <<script, search_results, num_products, compute_score,
                   products, df, cols, err, results>>

\* app.py, get_live_data: the request failed; st.error, return pd.DataFrame().
FetchFail ==
    /\ script = "app"
    /\ pc = "start"
    /\ pc' = "returned"
    /\ err' = "RequestException"
    /\ df' = <<>>
    /\ cols' = {}
    /\ UNCHANGED <<script, search_results, num_products, compute_score,
                   i, products, results>>

\* app.py, get_live_data: one iteration of the loop over search_results[:n].
LoopStep ==
    /\ script = "app"
    /\ pc = "loop"
    /\ i <= Len(Batch)
    /\ IF PriceRaises(Batch[i])
       THEN /\ pc' = "raised"
            /\ err' = "AttributeError"
            /\ UNCHANGED <<i, products>>
       ELSE /\ products' = IF Kept(Batch[i]) THEN Append(products, Product(Batch[i]))
                           ELSE products
            /\ i' = i + 1
            /\ UNCHANGED <<pc, err>>
    /\ UNCHANGED <<script, search_results, num_products, compute_score, df, cols, results>>

\* app.py, get_live_data: return pd.DataFrame(products).
LoopEnd ==
    /\ script = "app"
    /\ pc = "loop"
    /\ i > Len(Batch)
    /\ pc' = "returned"
    /\ df' = ToFrame(products)
    /\ cols' = IF products = <<>> THEN {} ELSE ProductColumns
    /\ UNCHANGED <<script, search_results, num_products, compute_score,
                   i, products, err, results>>

\* app.py: if df.empty: st.warning; st.stop().
StopEmpty ==
    /\ script = "app"
    /\ pc = "returned"
    /\ df = <<>>
    /\ pc' = "stopped"
    /\ UNCHANGED <<script, search_results, num_products, compute_score,
                   i, products, df, cols, err, results>>

\* app.py: the compute_score branch: apply and sort by "Winning Score".
RankByScore ==
    /\ script = "app"
    /\ pc = "returned"
    /\ df # <<>>
    /\ compute_score
    /\ df' \in SortOutcomes(Apply(df), "Winning Score")
    /\ cols' = cols \cup {"Winning Score"}
    /\ pc' = "ranked"
    /\ UNCHANGED <<script, search_results, num_products, compute_score,
                   i, products, err, results>>

\* app.py: the else branch: sort by "reviews".
RankByReviews ==
    /\ script = "app"
    /\ pc = "returned"
    /\ df # <<>>
    /\ ~compute_score
    /\ IF SortRaises(df, "reviews")
       THEN /\ pc' = "raised"
            /\ err' = "TypeError"
            /\ UNCHANGED df
       ELSE /\ df' \in SortOutcomes(df, "reviews")
            /\ pc' = "ranked"
            /\ UNCHANGED err
    /\ UNCHANGED <<script, search_results, num_products, compute_score,
                   i, products, cols, results>>

\* app.py: the top-8 chart: the three maxima, then the colour intensity read
\* from "Winning Score", rating and reviews. noneRaises is the outcome of the
\* version-dependent handling of an all-None column.
Chart ==
    /\ script = "app"
    /\ pc = "ranked"
    /\ \E noneRaises \in BOOLEAN :
         LET top8 == HeadN(df, TopN) IN
         IF MaxRaises(top8, "price") \/ MaxRaises(top8, "reviews") \/ MaxRaises(top8, "rating")
         THEN pc' = "raised" /\ err' = "TypeError"
         ELSE IF "Winning Score" \notin cols
         THEN pc' = "raised" /\ err' = "KeyError"
         ELSE IF DivRaises(top8, "rating") \/ DivRaises(top8, "reviews")
         THEN pc' = "raised" /\ err' = "TypeError"
         ELSE IF noneRaises /\ (ColumnAllNone(top8, "reviews") \/ ColumnAllNone(top8, "rating"))
         THEN pc' = "raised" /\ err' = "TypeError"
         ELSE pc' = "charted" /\ UNCHANGED err
    /\ UNCHANGED <<script, search_results, num_products, compute_score,
                   i, products, df, cols, results>>

\* app.py: the products table reads the "Winning Score" column.
Table ==
    /\ script = "app"
    /\ pc = "charted"
    /\ IF "Winning Score" \in cols
       THEN pc' = "tabled" /\ UNCHANGED err
       ELSE pc' = "raised" /\ err' = "KeyError"
    /\ UNCHANGED <<script, search_results, num_products, compute_score,
                   i, products, df, cols, results>>

\* app.py: the product cards read row["Winning Score"] of every top-8 row.
Cards ==
    /\ script = "app"
    /\ pc = "tabled"
    /\ IF "Winning Score" \in cols
       THEN pc' = "done" /\ UNCHANGED err
       ELSE pc' = "raised" /\ err' = "KeyError"
    /\ UNCHANGED <<script, search_results, num_products, compute_score,
                   i, products, df, cols, results>>

\* ------------------------------------------------- amazon_winning_products.py

\* The dict appended to results: an absent title, price value or rating
\* defaults to 'N/A', an absent link to ''.
Result(product) ==
    [title |-> Get(product.title, Str),
     price |-> Get(price_info(product).value, Str),
     rating |-> Get(product.rating, Str),
     link |-> Get(product.link, Empty)]

\* get_amazon_top_products: 'search_results' is in data; the loop starts.
TopStart ==
    /\ script = "amazon_winning_products"
    /\ pc = "start"
    /\ pc' = "loop"
    /\ i' = 1
    /\ UNCHANGED <<script, search_results, num_products, compute_score,
                   products, df, cols, err, results>>

\* get_amazon_top_products: 'search_results' not in data: return [].
TopNoResults ==
    /\ script = "amazon_winning_products"
    /\ pc = "start"
    /\ pc' = "returned"
    /\ err' = "NoSearchResults"
    /\ UNCHANGED <<script, search_results, num_products, compute_score,
                   i, products, df, cols, results>>

\* get_amazon_top_products: one iteration over search_results[:max_results].
TopStep ==
    /\ script = "amazon_winning_products"
    /\ pc = "loop"
    /\ i <= Len(Batch)
    /\ IF PriceRaises(Batch[i])
       THEN /\ pc' = "raised"
            /\ err' = "AttributeError"
            /\ UNCHANGED <<i, results>>
       ELSE /\ results' = Append(results, Result(Batch[i]))
            /\ i' = i + 1
            /\ UNCHANGED <<pc, err>>
    /\ UNCHANGED <<script, search_results, num_products, compute_score, products, df, cols>>

\* get_amazon_top_products: return results.
TopEnd ==
    /\ script = "amazon_winning_products"
    /\ pc = "loop"
    /\ i > Len(Batch)
    /\ pc' = "returned"
    /\ UNCHANGED <<script, search_results, num_products, compute_score,
                   i, products, df, cols, err, results>>

\* __main__: if products: print the frame and save the csv.
TopMain ==
    /\ script = "amazon_winning_products"
    /\ pc = "returned"
    /\ pc' = "done"
    /\ UNCHANGED <<script, search_results, num_products, compute_score,
                   i, products, df, cols, err, results>>

Next ==
    \/ FetchOk
    \/ FetchFail
    \/ LoopStep
    \/ LoopEnd
    \/ StopEmpty
    \/ RankByScore
    \/ RankByReviews
    \/ Chart
    \/ Table
    \/ Cards
    \/ TopStart
    \/ TopNoResults
    \/ TopStep
    \/ TopEnd
    \/ TopMain

Spec == Init /\ [][Next]_vars

SpecRank == InitRank /\ [][Next]_vars

\* ------------------------------------------------------------------ claims

TypeOK == pc \in PcValues /\ i \in 0..(MaxLen + 1)

Min(a, b) == IF a < b THEN a ELSE b

\* An item with a non-empty title and a price mapping whose value is a
\* number other than 0.
HasTitleAndPrice(item) ==
    /\ item.title.k = "str"
    /\ item.price.shape = "map"
    /\ item.price.value.k = "num"
    /\ item.price.value.v # 0

HasTitle(item) == item.title.k = "str"

\* The items among the first n of search_results that the loop of
\* get_live_data has gone over.
Examined == SubSeq(search_results, 1, Min(i - 1, Min(num_products, Len(search_results))))

InLiveData == script = "app" /\ pc # "start" /\ err # "RequestException"

C2_NeverRaises == ~(pc = "raised" /\ err = "AttributeError")

RankedByScore == script = "app" /\ pc \in {"ranked", "charted", "tabled", "done"} /\ compute_score

\* C3: with score computation enabled the ranked sequence is the stable
\* descending sort by score: no row precedes a row of higher score, and rows
\* of equal score are in input order.
C3_StableDescendingByScore ==
    RankedByScore =>
        \A a, b \in 1..Len(df) :
            (a < b /\ df[a].score.k = "num" /\ df[b].score.k = "num") =>
                /\ ~ScoreLess(df[a].score, df[b].score)
                /\ ScoreEq(df[a].score, df[b].score) => df[a].index < df[b].index

\* C4: the score is 0 for every product whose review count is 0 and for every
\* product whose rating is 0, whatever the other two fields are.
C4_ZeroReviewsOrRatingScoresZero ==
    RankedByScore =>
        \A a \in 1..Len(df) :
            (df[a].reviews = Num(0) \/ df[a].rating = Num(0)) => IsZero(df[a].score)

\* The arithmetic of the score of a row raises: a string operand, a review
\* count at or below -1, or a price of -1.
RowRaises(row) ==
    \/ row.rating.k = "str"
    \/ row.reviews.k = "str"
    \/ (row.reviews.k = "num" /\ row.reviews.v <= -1)
    \/ row.price = Num(-1)

\* C5: a product whose scoring raises gets score 0, and the pass still scores
\* and orders every other product: the ranked frame holds every product of
\* the collection, with its score, in descending order of score.
C5_ScoringErrorScoresZero ==
    RankedByScore =>
        /\ Len(df) = Len(products)
        /\ {df[a].index : a \in 1..Len(df)} = 0..(Len(products) - 1)
        /\ \A a \in 1..Len(df) :
              /\ RowRaises(df[a]) => IsZero(df[a].score)
              /\ df[a].score.k \in {"num", "nan"}
              /\ (~RowRaises(df[a]) /\ df[a].rating.k = "num" /\ df[a].reviews.k = "num") =>
                    /\ df[a].score.k = "num"
                    /\ df[a].score.n * (df[a].price.v + 1)
                          = df[a].rating.v * Log1pCenti(df[a].reviews.v) * df[a].score.d
        /\ \A a, b \in 1..Len(df) :
              (a < b /\ df[a].score.k = "num" /\ df[b].score.k = "num") =>
                  ~ScoreLess(df[a].score, df[b].score)

\* C5 witness: a ranked frame with a product whose scoring raised (price -1)
\* and another product with a positive score ranked before it.
C5_Witness ==
    /\ RankedByScore
    /\ Len(df) = 2
    /\ df[2].price = Num(-1) /\ df[2].rating = Num(4) /\ df[2].reviews = Num(50)
    /\ df[2].index = 0
    /\ ~RowRaises(df[1]) /\ df[1].score.k = "num" /\ df[1].score.n > 0

\* The price the threshold rule gives a value v (a multiple of 100 when it is
\* above the threshold, in the model).
MinorUnits(v) == IF v > 100000 THEN v \div 100 ELSE v

\* The examined items that get_live_data keeps.
ExaminedKept == SelectSeq(Examined, HasTitleAndPrice)

\* C6 (as stated): a price value v above 100,000 is stored as v / 100, a
\* value at or below 100,000 is stored unchanged.
C6_MinorUnitsAboveThreshold ==
    (InLiveData /\ Len(products) = Len(ExaminedKept)) =>
        \A j \in 1..Len(products) :
            products[j].price = Num(MinorUnits(ExaminedKept[j].price.value.v))

\* C6 (amended): a price value v is stored unchanged, whether it is above or
\* below 100,000.
C6_PriceValueUnchanged ==
    InLiveData =>
        /\ Len(products) = Len(ExaminedKept)
        /\ \A j \in 1..Len(products) :
              products[j].price = Num(ExaminedKept[j].price.value.v)

\* C6 witness: a product whose raw price value is 149900 was stored.
C6_Witness ==
    /\ InLiveData
    /\ Len(products) >= 1
    /\ ExaminedKept[1].price.value = Num(149900)
    /\ products[1].price = Num(149900)

RankedByReviews == script = "app" /\ pc = "ranked" /\ ~compute_score

\* C7: with score computation disabled the ranked sequence is in descending
\* order of the review count, with rows of equal count in input order.
C7_StableDescendingByReviews ==
    RankedByReviews =>
        \A a, b \in 1..Len(df) :
            (a < b /\ df[a].reviews.k = "num" /\ df[b].reviews.k = "num") =>
                /\ df[a].reviews.v >= df[b].reviews.v
                /\ df[a].reviews.v = df[b].reviews.v => df[a].index < df[b].index

\* C8: every product of the collection has a rating and a review count that
\* are non-negative numbers.
C8_RatingAndReviewsNonNegative ==
    script = "app" =>
        \A j \in 1..Len(products) :
            /\ products[j].rating.k = "num" /\ products[j].rating.v >= 0
            /\ products[j].reviews.k = "num" /\ products[j].reviews.v >= 0

\* C9: for both values of compute_score, no step after the ranking reads a
\* column that the frame does not have.
C9_ColumnsExist == ~(script = "app" /\ pc = "raised" /\ err = "KeyError")

\* C10: the frame get_live_data returns holds exactly the records among the
\* first n of search_results that have a truthy title and a truthy price
\* value, in their order: never more than n, and none from beyond n.
C10_TruncateThenFilter ==
    (script = "app" /\ pc = "returned" /\ err = "") =>
        LET firstN == SubSeq(search_results, 1, Min(num_products, Len(search_results)))
            kept == SelectSeq(firstN, HasTitleAndPrice)
        IN /\ Len(df) <= num_products
           /\ Len(df) = Len(kept)
           /\ \A j \in 1..Len(df) :
                 /\ df[j].index = j - 1
                 /\ df[j].price = kept[j].price.value
                 /\ df[j].link = Get(kept[j].link, None)
                 /\ df[j].thumbnail = Get(kept[j].image, Empty)
                 /\ df[j].rating \in {Get(kept[j].rating, Num(0)), NaN}
                 /\ df[j].reviews \in {Get(kept[j].reviews, Num(0)), NaN}

\* C10 witness: the first record was dropped, the frame was cut to n = 1
\* and the record at position 2, which has a title and a price, is not in it.
C10_Witness ==
    /\ script = "app" /\ pc = "returned" /\ err = ""
    /\ num_products = 1
    /\ Len(search_results) >= 2
    /\ ~HasTitleAndPrice(search_results[1])
    /\ HasTitleAndPrice(search_results[2])
    /\ df = <<>>
====
